---- MODULE Spec2Model ----
(***************************************************************************)
(* Dispatch engine of festeh/general: the per-target retry controller      *)
(* (executeWithRetry / executeSingleRequest / shouldRetry / waitForRetry)  *)
(* and the fan-out scheduler (Broadcast with a context, Execute without).  *)
(*                                                                         *)
(* Strings are sequences of tokens (a word, a punctuation mark or one      *)
(* decimal digit); strings.Contains is contiguous-subsequence search.      *)
(* Durations are whole seconds.                                            *)
(***************************************************************************)
EXTENDS Integers, Sequences, FiniteSets, TLC

\* ------------------------------------------------------------------ bounds

\* Largest number of configured targets of one Command.
MaxTargets == 2

\* Largest number of ExecuteOne calls of one caller.
MaxRuns == 2

\* ------------------------------------------------------- program constants

maxRetries == 3
baseDelay == 1
StatusOK == 200

\* ------------------------------------------------------------------ strings

DigitToken == <<"0", "1", "2", "3", "4", "5", "6", "7", "8", "9">>

\* fmt's %d of a number in 0..999
FormatInt(n) ==
    IF n < 10 THEN <<DigitToken[n + 1]>>
    ELSE IF n < 100 THEN <<DigitToken[(n \div 10) + 1], DigitToken[(n % 10) + 1]>>
    ELSE <<DigitToken[(n \div 100) + 1], DigitToken[((n \div 10) % 10) + 1],
           DigitToken[(n % 10) + 1]>>

\* strings.Contains(s, sub)
Contains(s, sub) ==
    \E i \in 0..(Len(s) - Len(sub)) : SubSeq(s, i + 1, i + Len(sub)) = sub

\* ---------------------------------------------------------------- transport

\* Response bodies a remote endpoint serves with a non-200 status.
BodyPlain == <<"not", "found">>
BodyStatus5 == <<"upstream", "status", "5", "0", "3">>
BodyHTTPFailed == <<"HTTP", "request", "failed">>
ErrorBodies == {BodyPlain, BodyStatus5, BodyHTTPFailed}

\* What json.Decoder.Decode makes of a 200 body: -1 is a body that does not
\* parse; otherwise the number of elements of "choices".
Malformed == 0 - 1
OKBodies == {Malformed, 0, 1}

\* Non-200 status codes the endpoints answer with.
ErrorCodes == {404, 429, 500, 503}

\* ctx.Err() after cancel
ctxCanceled == <<"context", "canceled">>
\* a transport-level failure of client.Do (url.Error text)
dialError == <<"Post", ":", "dial", "tcp", ":", "connection", "refused">>
\* client.Do aborted by the request's context
doCanceled == <<"Post", ":">> \o ctxCanceled

\* One return of client.Do: (httpResp, err).
DoError(cause) == [kind |-> "error", status |-> 0, text |-> cause, choices |-> 0]
DoResponse(code, text, n) ==
    [kind |-> "response", status |-> code, text |-> text, choices |-> n]

\* ------------------------------------------------------------------- errors

NoError == <<>>
NoResponse == [Choices |-> 0]

ProviderName(p) == <<"p", DigitToken[p + 1]>>

\* fmt.Errorf("request to %s failed after %d attempts: %w", ...)
FinalError(p, n, lastErr) ==
    <<"request", "to">> \o ProviderName(p) \o <<"failed", "after">>
        \o FormatInt(n) \o <<"attempts", ":">> \o lastErr

\* --------------------------------------------------------- attempt executor

\* error of json.Decoder.Decode on a body that does not parse
decodeError == <<"invalid", "character">>

\* mutant: the check for an empty choices array is missing
executeSingleRequestUnchecked(do) ==
    IF do.kind = "error"
    THEN [Response |-> NoResponse,
          Error |-> <<"HTTP", "request", "failed", ":">> \o do.text]
    ELSE IF do.status # StatusOK
    THEN [Response |-> NoResponse,
          Error |-> <<"API", "request", "failed", "with", "status">>
                        \o FormatInt(do.status) \o <<":">> \o do.text]
    ELSE IF do.choices = Malformed
    THEN [Response |-> NoResponse,
          Error |-> <<"failed", "to", "decode", "response", ":">> \o decodeError]
    ELSE [Response |-> [Choices |-> do.choices], Error |-> NoError]

\* executeSingleRequest, given what client.Do returned: (response, err)
executeSingleRequest(do) ==
    IF do.kind = "error"
    THEN [Response |-> NoResponse,
          Error |-> <<"HTTP", "request", "failed", ":">> \o do.text]
    ELSE IF do.status # StatusOK
    THEN [Response |-> NoResponse,
          Error |-> <<"API", "request", "failed", "with", "status">>
                        \o FormatInt(do.status) \o <<":">> \o do.text]
    ELSE IF do.choices = Malformed
    THEN [Response |-> NoResponse,
          Error |-> <<"failed", "to", "decode", "response", ":">> \o decodeError]
    ELSE IF do.choices = 0
    THEN [Response |-> NoResponse, Error |-> <<"no", "choices", "in", "response">>]
    ELSE [Response |-> [Choices |-> do.choices], Error |-> NoError]

\* mutant: an error of no known kind is retried
shouldRetryByDefault(errStr) ==
    IF Contains(errStr, <<"HTTP", "request", "failed">>) THEN TRUE
    ELSE IF Contains(errStr, <<"API", "request", "failed", "with", "status">>)
    THEN Contains(errStr, <<"status", "5">>)
    ELSE TRUE

\* shouldRetry(err), on err.Error()
shouldRetry(errStr) ==
    IF Contains(errStr, <<"HTTP", "request", "failed">>) THEN TRUE
    ELSE IF Contains(errStr, <<"API", "request", "failed", "with", "status">>)
    THEN Contains(errStr, <<"status", "5">>)
    ELSE Contains(errStr, <<"failed", "to", "decode", "response">>)

\* mutant: the shift is off by one
DelayDoubled(attempt) == (2 ^ (attempt + 1)) * baseDelay

\* the delay of waitForRetry (and of the time.Sleep of the context-free
\* variant): time.Duration(1<<uint(attempt)) * baseDelay
Delay(attempt) == (2 ^ attempt) * baseDelay

\* mutant: the last-attempt test is off by one
LoopContinuesOneMore(attempt, err) ==
    IF attempt = maxRetries THEN FALSE
    ELSE shouldRetry(err)

\* executeWithRetry after a failed attempt: TRUE when the loop goes on to
\* the backoff wait, FALSE when it breaks out
LoopContinues(attempt, err) ==
    IF attempt = maxRetries - 1 THEN FALSE
    ELSE shouldRetry(err)

\* mutant: lastErr keeps the error of the first failed attempt
KeepFirstErr(old, err) == IF old = NoError THEN err ELSE old

\* lastErr = err, after a failed attempt
SetLastErr(old, err) == err

\* the error executeWithRetry returns after the loop
ExhaustedError(p, lastErr) == FinalError(p, maxRetries, lastErr)

\* -------------------------------------------------------------------- state

VARIABLES
    variant,     \* "Broadcast" (parallel.go, with a context) or "Execute" (execute.go)
    providers,   \* c.providers: the configured targets, in order
    serve,       \* what the remote endpoints may answer during this run
    started,     \* the dispatch operation has been called
    cancelled,   \* the caller's cancellation has been signalled (ctx.Done() closed)
    wg,          \* the sync.WaitGroup counter
    supervisor,  \* the closing goroutine: "idle", "wait", "closed"
    closed,      \* the results channel is closed
    panicked,    \* a goroutine panicked (send on or close of a closed channel)
    results,     \* the buffer of the results channel
    received,    \* what the consumer has read from the channel, in order
    pc,          \* per target: "idle", "call", "backoff", "send", "done"
    attempt,     \* per target: the loop variable of executeWithRetry
    lastErr,     \* per target: lastErr of executeWithRetry
    result,      \* per target: the Result executeAndSend builds
    log,         \* per target: what client.Do returned, one entry per attempt
    sleeps,      \* per target: the backoff delays waited out, in order
    asleepAtCancel, \* history: the targets that were in a backoff wait at the cancel
    published,   \* history: the Results sent on the channel, in the order of the sends
    one,         \* the ExecuteOne call in progress (or the last one returned)
    oneRuns,     \* history: the ExecuteOne calls that returned, in order
    req,         \* the variable req of the caller (0) and of the task of each target
    requestBody  \* per target: the body the task marshalled and posts at each attempt

vars == <<variant, providers, serve, started, cancelled, wg, supervisor, closed,
          panicked, results, received, pc, attempt, lastErr, result, log, sleeps,
          asleepAtCancel, published, one, oneRuns, req, requestBody>>

Targets == 1..Len(providers)

\* Provider.Model of provider p
ProviderModel(p) == <<"model", DigitToken[p + 1]>>

\* ChatCompletionRequest{} (the zero value); Temperature, Tools and
\* ToolChoice stay at their zero values in every request considered.
NoRequest == [Model |-> <<>>, Messages |-> <<>>, MaxTokens |-> 0]

\* The requests a caller passes.
Requests ==
    {[Model |-> <<>>, Messages |-> <<"hello">>, MaxTokens |-> 0],
     [Model |-> <<"caller", "model">>, Messages |-> <<"hello", "again">>,
      MaxTokens |-> 64]}

\* json.Marshal(req): "model" and "messages" always, "max_tokens" unless 0
Marshal(r) ==
    <<"{", "model", ":", "\"">> \o r.Model \o <<"\"", ",", "messages", ":", "[">>
        \o r.Messages \o <<"]">>
        \o (IF r.MaxTokens = 0 THEN <<>>
            ELSE <<",", "max_tokens", ":">> \o FormatInt(r.MaxTokens))
        \o <<"}">>

\* req.Model = provider.Model
OverrideModel(r, p) == [r EXCEPT !.Model = ProviderModel(p)]

\* mutant: the request is passed by reference, the tasks write to the
\* caller's variable
ReqFrameShared(t) == 0

\* The variable req that the task of target t writes to and marshals: the
\* parameter of its own call, a copy of the caller's request.
ReqFrame(t) == t

\* mutant: the channel is made one slot short
CapacityShort == Len(providers) - 1

\* make(chan Result, len(c.providers))
Capacity == Len(providers)

\* Endpoint repertoires.
FullRepertoire ==
    {DoError(dialError)}
        \cup {DoResponse(c, b, 0) : c \in ErrorCodes, b \in ErrorBodies}
        \cup {DoResponse(StatusOK, <<>>, n) : n \in OKBodies}

SmallRepertoire ==
    {DoResponse(500, BodyPlain, 0), DoResponse(404, BodyPlain, 0),
     DoResponse(StatusOK, <<>>, 1)}

NoResult == [Provider |-> 0, Response |-> NoResponse, Error |-> NoError]

\* What ExecuteOne returns: (ChatCompletionResponse, error)
NoReturn == [Response |-> NoResponse, Error |-> NoError]

\* No ExecuteOne call has been made.
NoCall ==
    [pc |-> "idle", provider |-> 0, attempt |-> 0, lastErr |-> NoError,
     log |-> <<>>, sleeps |-> <<>>, ret |-> NoReturn, requestBody |-> <<>>]

InitWith(n, repertoire) ==
    /\ variant \in {"Broadcast", "Execute"}
    /\ providers = [i \in 1..n |-> i]
    /\ serve = repertoire
    /\ started = FALSE
    /\ cancelled = FALSE
    /\ wg = 0
    /\ supervisor = "idle"
    /\ closed = FALSE
    /\ panicked = FALSE
    /\ results = <<>>
    /\ received = <<>>
    /\ pc = [t \in 1..n |-> "idle"]
    /\ attempt = [t \in 1..n |-> 0]
    /\ lastErr = [t \in 1..n |-> NoError]
    /\ result = [t \in 1..n |-> NoResult]
    /\ log = [t \in 1..n |-> <<>>]
    /\ sleeps = [t \in 1..n |-> <<>>]
    /\ asleepAtCancel = {}
    /\ published = <<>>
    /\ one = NoCall
    /\ oneRuns = <<>>
    /\ req \in {[f \in 0..n |-> IF f = 0 THEN r ELSE NoRequest] : r \in Requests}
    /\ requestBody = [t \in 1..n |-> <<>>]

\* NewCommand with 0..MaxTargets targets
Init == \E n \in 0..MaxTargets : InitWith(n, SmallRepertoire)

\* NewCommand with one target, against endpoints of every kind
InitRetry == InitWith(1, FullRepertoire)

\* NewCommand with three targets
InitThree == InitWith(3, SmallRepertoire)

\* ------------------------------------------------------------------ actions

\* mutant: the goroutines share the loop variable of the range loop
TaskProviderShared(t) == providers[Len(providers)]

\* The provider a task works for: the argument p of go func(p Provider)
TaskProvider(t) == providers[t]

\* Broadcast / Execute up to its return: the channel is made, one goroutine
\* per provider is started after wg.Add(1), then the closing goroutine. Each
\* task runs without blocking up to its first client.Do.
Dispatch ==
    /\ ~started
    /\ one.pc = "idle"
    /\ UNCHANGED <<asleepAtCancel, published, one, oneRuns>>
    /\ started' = TRUE
    /\ wg' = Len(providers)
    /\ supervisor' = "wait"
    /\ pc' = [t \in Targets |-> "call"]
    /\ req' = [f \in DOMAIN req |->
                  LET w == {t \in Targets : ReqFrame(t) = f}
                  IN  IF w = {} THEN req[f]
                      ELSE OverrideModel(req[0],
                               TaskProvider(CHOOSE t \in w : \A u \in w : u <= t))]
    /\ requestBody' = [t \in Targets |-> Marshal(req'[ReqFrame(t)])]
    /\ UNCHANGED <<variant, providers, serve, cancelled, closed, panicked, results,
                   received, attempt, lastErr, result, log, sleeps>>

\* The caller cancels a running dispatch: the context it passed to
\* Broadcast. The context-free variant builds its requests on
\* context.Background() and never sees it. A client.Do pending at the
\* cancel may still return its response or be aborted (DoReturns).
Cancel ==
    /\ started
    /\ ~cancelled
    /\ cancelled' = TRUE
    /\ asleepAtCancel' = {t \in Targets : pc[t] = "backoff"}
    /\ UNCHANGED <<published, one, oneRuns, req, requestBody>>
    /\ UNCHANGED <<variant, providers, serve, started, wg, supervisor, closed,
                   panicked, results, received, pc, attempt, lastErr, result, log,
                   sleeps>>

\* What the pending client.Do of a task may return now.
DoReturns ==
    serve \cup (IF variant = "Broadcast" /\ cancelled
                THEN {DoError(doCanceled)} ELSE {})

\* client.Do returns and executeWithRetry runs on to its next blocking point:
\* the result is built (success, or the loop broke), or the backoff begins.
TransportReturn(t) ==
    /\ pc[t] = "call"
    /\ UNCHANGED <<asleepAtCancel, published, one, oneRuns, req, requestBody>>
    /\ \E do \in DoReturns :
        LET r == executeSingleRequest(do) IN
        /\ log' = [log EXCEPT ![t] = Append(@, do)]
        /\ IF r.Error = NoError
           THEN /\ result' = [result EXCEPT ![t] =
                       [Provider |-> TaskProvider(t), Response |-> r.Response,
                        Error |-> NoError]]
                /\ pc' = [pc EXCEPT ![t] = "send"]
                /\ UNCHANGED lastErr
           ELSE /\ lastErr' = [lastErr EXCEPT ![t] = SetLastErr(@, r.Error)]
                /\ IF LoopContinues(attempt[t], r.Error)
                   THEN /\ pc' = [pc EXCEPT ![t] = "backoff"]
                        /\ UNCHANGED result
                   ELSE /\ result' = [result EXCEPT ![t] =
                               [Provider |-> TaskProvider(t), Response |-> NoResponse,
                                Error |-> ExhaustedError(TaskProvider(t),
                                                         lastErr'[t])]]
                        /\ pc' = [pc EXCEPT ![t] = "send"]
    /\ UNCHANGED <<variant, providers, serve, started, cancelled, wg, supervisor,
                   closed, panicked, results, received, attempt, sleeps>>

\* mutant: the wait does not look at the context
TimerCaseIgnoresContext == TRUE

\* Whether the wait of a task in backoff can end by its timer: always for
\* the time.Sleep of the context-free variant; in waitForRetry's select the
\* parked goroutine is woken by whichever comes first, so not once
\* ctx.Done() is closed.
TimerCase == variant = "Execute" \/ ~cancelled

\* The timer case of waitForRetry's select (time.Sleep returning, in the
\* context-free variant): the loop increments attempt and calls client.Do.
TimerFires(t) ==
    /\ pc[t] = "backoff"
    /\ UNCHANGED <<asleepAtCancel, published, one, oneRuns, req, requestBody>>
    /\ TimerCase
    /\ sleeps' = [sleeps EXCEPT ![t] = Append(@, Delay(attempt[t]))]
    /\ attempt' = [attempt EXCEPT ![t] = @ + 1]
    /\ pc' = [pc EXCEPT ![t] = "call"]
    /\ UNCHANGED <<variant, providers, serve, started, cancelled, wg, supervisor,
                   closed, panicked, results, received, lastErr, result, log>>

\* The ctx.Done() case of waitForRetry's select: executeWithRetry returns
\* ctx.Err() and executeAndSend builds the Result.
WaitCancelled(t) ==
    /\ pc[t] = "backoff"
    /\ UNCHANGED <<asleepAtCancel, published, one, oneRuns, req, requestBody>>
    /\ variant = "Broadcast"
    /\ cancelled
    /\ result' = [result EXCEPT ![t] =
           [Provider |-> TaskProvider(t), Response |-> NoResponse, Error |-> ctxCanceled]]
    /\ pc' = [pc EXCEPT ![t] = "send"]
    /\ UNCHANGED <<variant, providers, serve, started, cancelled, wg, supervisor,
                   closed, panicked, results, received, attempt, lastErr, log, sleeps>>

\* mutant: the channel hands out the newest Result first
SendFront(ch, r) == <<r>> \o ch

\* results <- result: a channel is a FIFO queue, a send joins at its tail
Send(ch, r) == Append(ch, r)

\* The send of executeAndSend goes through (the plain send of execute.go,
\* the send case of the select of parallel.go), then the deferred wg.Done().
\* A send on a closed channel panics.
Publish(t) ==
    /\ pc[t] = "send"
    /\ UNCHANGED <<asleepAtCancel, one, oneRuns, req, requestBody>>
    /\ closed \/ Len(results) < Capacity
    /\ IF closed
       THEN /\ panicked' = TRUE
            /\ UNCHANGED <<results, published>>
       ELSE /\ results' = Send(results, result[t])
            /\ published' = Append(published, result[t])
            /\ UNCHANGED panicked
    /\ pc' = [pc EXCEPT ![t] = "done"]
    /\ wg' = wg - 1
    /\ UNCHANGED <<variant, providers, serve, started, cancelled, supervisor, closed,
                   received, attempt, lastErr, result, log, sleeps>>

\* The ctx.Done() case of the select of executeAndSend (parallel.go): the
\* Result is dropped, then the deferred wg.Done().
DropResult(t) ==
    /\ pc[t] = "send"
    /\ UNCHANGED <<asleepAtCancel, published, one, oneRuns, req, requestBody>>
    /\ variant = "Broadcast"
    /\ cancelled
    /\ pc' = [pc EXCEPT ![t] = "done"]
    /\ wg' = wg - 1
    /\ UNCHANGED <<variant, providers, serve, started, cancelled, supervisor, closed,
                   panicked, results, received, attempt, lastErr, result, log, sleeps>>

\* mutant: the WaitGroup is not waited for
WaitReturnsAtOnce == TRUE

\* wg.Wait() returns
WaitReturns == wg = 0

\* The closing goroutine: wg.Wait(), then close(results).
Close ==
    /\ supervisor = "wait"
    /\ UNCHANGED <<asleepAtCancel, published, one, oneRuns, req, requestBody>>
    /\ WaitReturns
    /\ supervisor' = "closed"
    /\ IF closed
       THEN panicked' = TRUE /\ UNCHANGED closed
       ELSE closed' = TRUE /\ UNCHANGED panicked
    /\ UNCHANGED <<variant, providers, serve, started, cancelled, wg, results,
                   received, pc, attempt, lastErr, result, log, sleeps>>

\* The consumer receives one Result from the channel.
Receive ==
    /\ results # <<>>
    /\ UNCHANGED <<asleepAtCancel, published, one, oneRuns, req, requestBody>>
    /\ received' = Append(received, Head(results))
    /\ results' = Tail(results)
    /\ UNCHANGED <<variant, providers, serve, started, cancelled, wg, supervisor,
                   closed, panicked, pc, attempt, lastErr, result, log, sleeps>>

\* mutant: ExecuteOne takes the last configured provider
LastProvider == providers[Len(providers)]

\* c.providers[0]
FirstProvider == providers[1]

\* fmt.Errorf("no providers configured")
noProviders == <<"no", "providers", "configured">>

\* mutant: the loop variable outlives the call
StaleCall(prev) ==
    [pc |-> "call", provider |-> FirstProvider, attempt |-> prev.attempt,
     lastErr |-> NoError, log |-> <<>>, sleeps |-> <<>>, ret |-> NoReturn,
     requestBody |-> Marshal(OverrideModel(req[0], FirstProvider))]

\* executeProvider / executeWithRetry entered for c.providers[0]: every
\* variable of the run is local to the call.
FreshCall(prev) ==
    [pc |-> "call", provider |-> FirstProvider, attempt |-> 0,
     lastErr |-> NoError, log |-> <<>>, sleeps |-> <<>>, ret |-> NoReturn,
     requestBody |-> Marshal(OverrideModel(req[0], FirstProvider))]

\* ExecuteOne (execute.go) is called, by a caller that is not in the middle
\* of a fan-out: it returns at once without providers, else it runs
\* executeProvider on the first one, up to the first client.Do.
ExecuteOne ==
    /\ variant = "Execute"
    /\ one.pc \in {"idle", "done"}
    /\ Len(oneRuns) < MaxRuns
    /\ ~started \/ (closed /\ results = <<>>)
    /\ IF Len(providers) = 0
       THEN /\ one' = [NoCall EXCEPT !.pc = "done",
                          !.ret = [Response |-> NoResponse, Error |-> noProviders]]
            /\ oneRuns' = Append(oneRuns, one')
       ELSE /\ one' = FreshCall(one)
            /\ UNCHANGED oneRuns
    /\ UNCHANGED <<variant, providers, serve, started, cancelled, wg, supervisor,
                   closed, panicked, results, received, pc, attempt, lastErr, result,
                   log, sleeps, asleepAtCancel, published, req,
                   requestBody>>

\* The transport a caller meets again is deterministic: a call that follows
\* an earlier run against the first target (an ExecuteOne call, else the
\* task of the fan-out) gets the answers that run got, in order; any
\* attempt beyond them, and a first run, gets any answer.
Script ==
    IF oneRuns # <<>> THEN oneRuns[1].log
    ELSE IF started THEN log[1]
    ELSE <<>>

\* What the pending client.Do of the ExecuteOne call may return now.
OneReturns ==
    IF Len(Script) > Len(one.log) THEN {Script[Len(one.log) + 1]} ELSE serve

\* client.Do returns to the ExecuteOne call, and executeWithRetry runs on to
\* the backoff sleep or to the return of ExecuteOne.
OneTransportReturn ==
    /\ one.pc = "call"
    /\ \E do \in OneReturns :
        LET r == executeSingleRequest(do)
            l == Append(one.log, do)
            e == SetLastErr(one.lastErr, r.Error)
        IN  IF r.Error = NoError
            THEN one' = [one EXCEPT !.log = l, !.pc = "done",
                            !.ret = [Response |-> r.Response, Error |-> NoError]]
            ELSE IF LoopContinues(one.attempt, r.Error)
            THEN one' = [one EXCEPT !.log = l, !.lastErr = e, !.pc = "backoff"]
            ELSE one' = [one EXCEPT !.log = l, !.lastErr = e, !.pc = "done",
                            !.ret = [Response |-> NoResponse,
                                     Error |-> ExhaustedError(one.provider, e)]]
    /\ oneRuns' = IF one'.pc = "done" THEN Append(oneRuns, one') ELSE oneRuns
    /\ UNCHANGED <<variant, providers, serve, started, cancelled, wg, supervisor,
                   closed, panicked, results, received, pc, attempt, lastErr, result,
                   log, sleeps, asleepAtCancel, published, req,
                   requestBody>>

\* The time.Sleep of the ExecuteOne call returns: the loop increments
\* attempt and calls client.Do.
OneTimerFires ==
    /\ one.pc = "backoff"
    /\ one' = [one EXCEPT !.sleeps = Append(@, Delay(one.attempt)),
                          !.attempt = @ + 1, !.pc = "call"]
    /\ UNCHANGED <<variant, providers, serve, started, cancelled, wg, supervisor,
                   closed, panicked, results, received, pc, attempt, lastErr, result,
                   log, sleeps, asleepAtCancel, published, oneRuns, req,
                   requestBody>>

Next ==
    \/ Dispatch
    \/ Cancel
    \/ \E t \in Targets : TransportReturn(t)
    \/ \E t \in Targets : TimerFires(t)
    \/ \E t \in Targets : WaitCancelled(t)
    \/ \E t \in Targets : Publish(t)
    \/ \E t \in Targets : DropResult(t)
    \/ Close
    \/ Receive
    \/ ExecuteOne
    \/ OneTransportReturn
    \/ OneTimerFires

Spec == Init /\ [][Next]_vars

SpecRetry == InitRetry /\ [][Next]_vars

SpecThree == InitThree /\ [][Next]_vars

\* Scheduling: a started goroutine that can run does run; a pending
\* client.Do returns (the client has a timeout); a timer fires. Nothing
\* makes the caller cancel or the consumer read.
Fairness ==
    /\ \A t \in 1..MaxTargets :
         /\ WF_vars(t \in Targets /\ TransportReturn(t))
         /\ WF_vars(t \in Targets /\ TimerFires(t))
         /\ WF_vars(t \in Targets /\ WaitCancelled(t))
         /\ WF_vars(t \in Targets /\ (Publish(t) \/ DropResult(t)))
    /\ WF_vars(Close)

FairSpec == Init /\ [][Next]_vars /\ Fairness

\* ------------------------------------------------------------------- claims

\* Every Result put on the stream so far, in publication order.
Stream == received \o results

\* The number of Results on the stream that name target t.
Published(t) ==
    Cardinality({i \in 1..Len(Stream) : Stream[i].Provider = providers[t]})

Finished(t) == pc[t] \in {"send", "done"}

Last(s) == s[Len(s)]

\* A 200 response whose body parses and has at least one choice.
IsSuccess(do) == do.kind = "response" /\ do.status = StatusOK /\ do.choices >= 1

\* The stream holds exactly one Result per configured target and is closed.
AllDelivered ==
    /\ closed
    /\ Len(Stream) = Len(providers)
    /\ \A t \in Targets : Published(t) = 1

\* C1: if the caller never cancels, then once a fan-out dispatch (Broadcast
\* or Execute) over N >= 0 targets has been called, eventually the stream
\* holds exactly N Results, exactly one per configured target, and is closed.
C1_EventuallyAllDelivered == ([]~cancelled) => (started ~> AllDelivered)

\* C1 witness: a two-target dispatch, never cancelled, has delivered both
\* Results, one of them after a retry, and closed the stream.
C1_Witness ==
    /\ ~cancelled
    /\ Len(providers) = 2
    /\ AllDelivered
    /\ \E t \in Targets : Len(log[t]) > 1

\* C2: in every run, cancelled or not: the stream is closed only after every
\* per-target task has finished and only by the one close of the closing
\* goroutine; no goroutine panics on a send after the close or on a second
\* close; no target has more than one Result on the stream, so the stream
\* never holds more than N Results.
C2_ClosedOnceAfterAllTasks ==
    /\ closed => \A t \in Targets : pc[t] = "done"
    /\ closed <=> supervisor = "closed"
    /\ ~panicked
    /\ \A t \in Targets : Published(t) <= 1
    /\ \A t \in Targets : pc[t] # "done" => Published(t) = 0
    /\ Len(Stream) <= Len(providers)

\* C2 witness: a cancelled two-target Broadcast closed its stream after one
\* task published and the other dropped its Result.
C2_Witness ==
    /\ variant = "Broadcast"
    /\ cancelled
    /\ closed
    /\ Len(providers) = 2
    /\ Len(Stream) = 1

\* C3: one run of executeWithRetry makes at least 1 and at most maxRetries
\* attempts, and no attempt follows a successful one.
C3_AttemptsBounded ==
    \A t \in Targets :
        /\ Len(log[t]) <= 3
        /\ Finished(t) => Len(log[t]) >= 1
        /\ pc[t] = "call" => Len(log[t]) < 3
        /\ \A i \in 1..(Len(log[t]) - 1) : ~IsSuccess(log[t][i])
        /\ pc[t] \in {"call", "backoff"} =>
               \A i \in 1..Len(log[t]) : ~IsSuccess(log[t][i])

\* C3 witness: a run ended after three attempts, the third failed too.
C3_Witness ==
    \E t \in Targets :
        /\ pc[t] = "done"
        /\ Len(log[t]) = 3
        /\ ~IsSuccess(log[t][3])

\* The retry table of the specification, on what client.Do returned:
\* Network, Decode and HTTPStatus 5xx are retried, the rest is not.
Retryable(do) ==
    \/ do.kind = "error"
    \/ do.kind = "response" /\ do.status = StatusOK /\ do.choices = Malformed
    \/ do.kind = "response" /\ do.status >= 500 /\ do.status < 600

ZeroChoices(do) == do.kind = "response" /\ do.status = StatusOK /\ do.choices = 0

\* The run of target t ended on a failed attempt (not on a cancellation).
EndedOnFailure(t) ==
    /\ Finished(t)
    /\ result[t].Error # NoError
    /\ result[t].Error # ctxCanceled

\* C4: after a failed attempt that is not the last allowed one, the Retry
\* Controller goes on to the backoff wait if and only if the failure is
\* Network, Decode or HTTPStatus 5xx; for a 4xx status and for EmptyChoices
\* it stops at once.
C4_RetryIffTable ==
    \A t \in Targets :
        /\ pc[t] = "backoff" => Retryable(Last(log[t]))
        /\ (EndedOnFailure(t) /\ Len(log[t]) < maxRetries) =>
               ~Retryable(Last(log[t]))

\* C5: a target that answers 404 to the first attempt ends with an error
\* after exactly one attempt, without a backoff wait.
C5_NotFoundSingleAttempt ==
    \A t \in Targets :
        (Len(log[t]) >= 1 /\ log[t][1].kind = "response" /\ log[t][1].status = 404) =>
            /\ EndedOnFailure(t)
            /\ Len(log[t]) = 1
            /\ sleeps[t] = <<>>

\* C6: the attempt count in the final error of the Retry Controller is the
\* number of attempts the run made.
C6_ReportedAttempts ==
    \A t \in Targets :
        EndedOnFailure(t) =>
            result[t].Error = FinalError(providers[t], Len(log[t]), lastErr[t])

\* C7: an attempt answered 200 with a well-formed body of zero choices is
\* the last attempt of its run, the run ends with an error, and when it is
\* the first attempt the run made exactly one attempt and waited no backoff.
C7_ZeroChoicesNotRetried ==
    \A t \in Targets :
        \A i \in 1..Len(log[t]) :
            ZeroChoices(log[t][i]) =>
                /\ i = Len(log[t])
                /\ EndedOnFailure(t)
                /\ Len(sleeps[t]) = i - 1

\* C7 witness: a run ended on a zero-choices answer to its first attempt.
C7_Witness ==
    \E t \in Targets :
        /\ pc[t] = "done"
        /\ Len(log[t]) = 1
        /\ ZeroChoices(log[t][1])
        /\ result[t].Error # NoError

Status500(do) == do.kind = "response" /\ do.status = 500

\* C8: a target answering 500, 500 and then 200 with a choice ends with a
\* successful Result after exactly three attempts; the run waited exactly
\* two backoffs, 1s before the second attempt and 2s before the third.
C8_RetryThenSuccess ==
    \A t \in Targets :
        /\ (Len(log[t]) = 1 /\ Status500(log[t][1]) /\ pc[t] = "call") =>
               sleeps[t] = <<1>>
        /\ (Len(log[t]) = 2 /\ Status500(log[t][1]) /\ Status500(log[t][2])
                /\ pc[t] = "call") =>
               sleeps[t] = <<1, 2>>
        /\ (Len(log[t]) >= 3 /\ Status500(log[t][1]) /\ Status500(log[t][2])
                /\ IsSuccess(log[t][3])) =>
               /\ Len(log[t]) = 3
               /\ Finished(t)
               /\ result[t].Error = NoError
               /\ result[t].Response.Choices >= 1
               /\ sleeps[t] = <<1, 2>>

\* C8 witness: a run answered 500, 500, 200 has ended.
C8_Witness ==
    \E t \in Targets :
        /\ pc[t] = "done"
        /\ Len(log[t]) = 3
        /\ Status500(log[t][1])
        /\ Status500(log[t][2])
        /\ IsSuccess(log[t][3])

\* C9: a Broadcast over 3 targets cancelled while two of them were in their
\* backoff wait closes its stream with fewer than 3 Results on it.
C9_FewerThanThree ==
    (/\ variant = "Broadcast"
     /\ Len(providers) = 3
     /\ cancelled
     /\ Cardinality(asleepAtCancel) = 2
     /\ closed) => Len(Stream) < 3

\* C9 as amended: a Broadcast over 3 targets cancelled while two of them
\* were in their backoff wait never has more than 3 Results on its stream,
\* and each of those two targets makes no further attempt and either drops
\* its Result or publishes one that carries the cancellation error.
C9_SleepersEndCancelled ==
    (/\ variant = "Broadcast"
     /\ Len(providers) = 3
     /\ cancelled
     /\ Cardinality(asleepAtCancel) = 2) =>
        /\ Len(Stream) <= 3
        /\ \A t \in asleepAtCancel :
            /\ pc[t] # "call"
            /\ Len(sleeps[t]) = Len(log[t]) - 1
            /\ \A i \in 1..Len(Stream) :
                Stream[i].Provider = providers[t] =>
                    Stream[i].Error = ctxCanceled

\* C9 witness: such a Broadcast closed its stream with all 3 Results on it.
C9_Witness ==
    /\ variant = "Broadcast"
    /\ Len(providers) = 3
    /\ cancelled
    /\ Cardinality(asleepAtCancel) = 2
    /\ closed
    /\ Len(Stream) = 3

\* C10: once cancellation is signalled, a Retry Controller in its backoff
\* wait starts no further attempt, and it leaves the wait only by returning
\* the cancellation error.
C10_CancelEndsBackoff ==
    [][\A t \in Targets :
          (cancelled /\ pc[t] = "backoff") =>
              /\ pc'[t] # "call"
              /\ log'[t] = log[t]
              /\ pc'[t] # "backoff" => result'[t].Error = ctxCanceled]_vars

\* C11: whether or not the consumer reads and whether or not the caller
\* cancels, a task that has reached its publish step leaves it and
\* finishes, in Broadcast and in Execute: the consumer is under no fairness.
C11_PublishNeverStuck ==
    \A t \in 1..MaxTargets :
        (t \in Targets /\ pc[t] = "send") ~> (t \in Targets /\ pc[t] = "done")

\* C11 witness: the consumer has read nothing, the caller has not
\* cancelled, and both tasks of a two-target Execute have published and
\* finished.
C11_Witness ==
    /\ variant = "Execute"
    /\ ~cancelled
    /\ received = <<>>
    /\ Len(providers) = 2
    /\ Len(results) = 2
    /\ \A t \in Targets : pc[t] = "done"

\* What executeSingleRequest makes of one answer of client.Do.
AttemptError(do) == executeSingleRequest(do).Error

\* The Result the transport answers l of one target alone determine, for
\* a run that no cancellation cut short.
OwnOutcome(p, l) ==
    IF AttemptError(Last(l)) = NoError
    THEN [Provider |-> p, Response |-> executeSingleRequest(Last(l)).Response,
          Error |-> NoError]
    ELSE [Provider |-> p, Response |-> NoResponse,
          Error |-> FinalError(p, maxRetries, AttemptError(Last(l)))]

\* The task-local state of target t.
Local(t) == <<pc[t], attempt[t], lastErr[t], result[t], log[t], sleeps[t]>>

\* C12: a step of one target's task changes nothing of another target's
\* task; the attempts and the Result of target b are what b's own transport
\* answers determine, whatever the other targets' outcomes; and unless a
\* cancelled Broadcast dropped it, b's Result is on the stream once b has
\* finished.
C12_TargetsIsolated ==
    [][started =>
        /\ \A a \in Targets : \A b \in Targets \ {a} :
               Local(a)' # Local(a) => Local(b)' = Local(b)
        /\ \A b \in Targets :
            /\ (Finished(b)' /\ result'[b].Error # ctxCanceled) =>
                   /\ result'[b] = OwnOutcome(providers[b], log'[b])
                   /\ Len(sleeps'[b]) = Len(log'[b]) - 1
            /\ (pc'[b] = "done" /\ ~(variant = "Broadcast" /\ cancelled')) =>
                   \E i \in 1..Len(Stream') : Stream'[i] = result'[b]]_vars

\* C12 witness: of two targets the first ended in failure, the second
\* made its three attempts, succeeded and has its Result on the stream.
C12_Witness ==
    /\ Len(providers) = 2
    /\ ~cancelled
    /\ pc[1] = "done"
    /\ result[1].Error # NoError
    /\ pc[2] = "done"
    /\ Len(log[2]) = 3
    /\ result[2].Error = NoError
    /\ \E i \in 1..Len(Stream) : Stream[i] = result[2]

\* C13: every Result on the stream has its error set exactly when the
\* retry run of its target did not end on a successful attempt; without an
\* error it carries a Response of at least one choice, with an error the
\* empty Response.
C13_ResultWellFormed ==
    \A i \in 1..Len(Stream) :
        /\ \E t \in Targets :
            /\ providers[t] = Stream[i].Provider
            /\ pc[t] = "done"
            /\ Stream[i].Error = NoError <=> IsSuccess(Last(log[t]))
        /\ Stream[i].Error = NoError => Stream[i].Response.Choices >= 1
        /\ Stream[i].Error # NoError => Stream[i].Response = NoResponse

\* C13 witness: the stream carries the Result of a run that ended on a
\* 200 answer with zero choices: error set, empty Response.
C13_Witness ==
    \E i \in 1..Len(Stream) :
        /\ Stream[i].Error # NoError
        /\ Stream[i].Response = NoResponse
        /\ \E t \in Targets :
            /\ providers[t] = Stream[i].Provider
            /\ ZeroChoices(Last(log[t]))

\* C14: every ExecuteOne call that returned with providers configured ran
\* against the first provider only, made at least one attempt, and returned
\* the response or error that the transport answers it got determine the
\* way the fan-out task determines its Result (one sleep between two
\* attempts); when its answers are those the fan-out task of the first
\* provider got, it returned that task's response, error and sleeps. With
\* no provider configured it returned an error and made no transport call.
C14_ExecuteOneIsFirstTarget ==
    \A i \in 1..Len(oneRuns) :
        LET r == oneRuns[i]
        IN  IF Len(providers) = 0
            THEN r.log = <<>> /\ r.ret.Error # NoError /\ r.ret.Response = NoResponse
            ELSE /\ r.provider = providers[1]
                 /\ r.log # <<>>
                 /\ r.ret.Response = OwnOutcome(providers[1], r.log).Response
                 /\ r.ret.Error = OwnOutcome(providers[1], r.log).Error
                 /\ Len(r.sleeps) = Len(r.log) - 1
                 /\ (started /\ r.log = log[1]) =>
                        /\ r.ret.Response = result[1].Response
                        /\ r.ret.Error = result[1].Error
                        /\ r.sleeps = sleeps[1]

C14_Witness ==
    /\ Len(providers) = 2
    /\ started
    /\ oneRuns # <<>>
    /\ oneRuns[1].log = log[1]
    /\ Len(log[1]) = 3
    /\ oneRuns[1].ret.Error = NoError
    /\ result[2].Error # NoError

\* C15: all ExecuteOne calls made against the same transport answers made
\* the same attempts and the same sleeps and returned the same response and
\* the same error.
C15_ExecuteOneRepeatable ==
    \A i \in 1..Len(oneRuns) : \A j \in 1..Len(oneRuns) :
        /\ oneRuns[i].ret = oneRuns[j].ret
        /\ oneRuns[i].log = oneRuns[j].log
        /\ oneRuns[i].sleeps = oneRuns[j].sleeps

C15_Witness ==
    /\ Len(oneRuns) = 2
    /\ Len(oneRuns[1].log) = 3
    /\ oneRuns[1].ret.Error = NoError
    /\ oneRuns[2].ret = oneRuns[1].ret

\* C16: the decision taken after a non-200 answer to an attempt that is not
\* the last allowed one (wait and retry, or stop) is the decision any other
\* body with the same status code gets, and a 4xx answer is never followed
\* by a backoff wait.
C16_BodyIndependent ==
    \A t \in Targets :
        (/\ log[t] # <<>>
         /\ Len(log[t]) < maxRetries
         /\ Last(log[t]).kind = "response"
         /\ Last(log[t]).status # StatusOK
         /\ pc[t] = "backoff" \/ EndedOnFailure(t)) =>
            /\ \A b \in ErrorBodies :
                   pc[t] = "backoff" <=>
                       shouldRetry(AttemptError(DoResponse(Last(log[t]).status, b, 0)))
            /\ (Last(log[t]).status >= 400 /\ Last(log[t]).status < 500) =>
                   pc[t] # "backoff"

\* C17: once the caller has cancelled, every task that is blocked can leave
\* its blocking point because of the cancellation alone: a pending
\* client.Do may return the cancellation error, a backoff wait may end on
\* ctx.Done, and a publish may go through or be dropped; this in both
\* dispatch operations, Broadcast and Execute.
C17_CancelUnblocksAll ==
    cancelled =>
        \A t \in Targets :
            /\ pc[t] = "call" => DoError(doCanceled) \in DoReturns
            /\ pc[t] = "backoff" => ENABLED WaitCancelled(t)
            /\ pc[t] = "send" => ENABLED (Publish(t) \/ DropResult(t))

\* C18: in every retry run, the k-th sleep taken (k = 1, 2) follows a k-th
\* attempt that failed with a Network, Decode or 5xx failure, is never
\* taken after the last allowed attempt, and lasts 2^(k-1) seconds; a run
\* that ended, other than by cancellation, slept once less than it made
\* attempts, and a run that is between attempts slept as often as it made
\* attempts.
C18_SleepsBetweenRetryable ==
    \A t \in Targets :
        /\ \A k \in 1..Len(sleeps[t]) :
            /\ k < maxRetries
            /\ k <= Len(log[t])
            /\ Retryable(log[t][k])
            /\ sleeps[t][k] = 2 ^ (k - 1) * baseDelay
        /\ (Finished(t) /\ result[t].Error # ctxCanceled) =>
               Len(sleeps[t]) = Len(log[t]) - 1
        /\ pc[t] = "backoff" => Len(sleeps[t]) = Len(log[t]) - 1
        /\ pc[t] = "call" => Len(sleeps[t]) = Len(log[t])

\* The error e begins with "request to" and the name of provider p and
\* ends with the error of the last of the attempts l.
WrapsLast(e, p, l) ==
    LET head == <<"request", "to">> \o ProviderName(p)
        last == AttemptError(Last(l))
    IN  /\ Len(e) >= Len(head) + Len(last)
        /\ SubSeq(e, 1, Len(head)) = head
        /\ SubSeq(e, Len(e) - Len(last) + 1, Len(e)) = last

\* C19: the error of a retry run that ended on a failed attempt, in a
\* fan-out task or in an ExecuteOne call, begins with "request to" and the
\* name of the run's provider and ends with the error of the last attempt
\* the run made.
C19_WrapsLastError ==
    /\ \A t \in Targets :
           EndedOnFailure(t) => WrapsLast(result[t].Error, providers[t], log[t])
    /\ \A i \in 1..Len(oneRuns) :
           (oneRuns[i].log # <<>> /\ oneRuns[i].ret.Error # NoError) =>
               WrapsLast(oneRuns[i].ret.Error, providers[1], oneRuns[i].log)

C19_Witness ==
    \E t \in Targets :
        /\ EndedOnFailure(t)
        /\ Len(log[t]) = maxRetries
        /\ AttemptError(log[t][1]) # AttemptError(log[t][maxRetries])
        /\ AttemptError(log[t][2]) # AttemptError(log[t][maxRetries])

\* C20: the Results the consumer has received, followed by those still in
\* the channel, are the published Results in the order of their
\* publication: the consumer receives them in completion order, whatever
\* the order of the providers in the configuration.
C20_ReceivedInPublicationOrder ==
    /\ Stream = published
    /\ \A i \in 1..Len(received) : received[i] = published[i]

C20_Witness ==
    /\ Len(providers) = 2
    /\ Len(received) = 2
    /\ received[1].Provider = providers[2]
    /\ received[2].Provider = providers[1]
    /\ published = received

\* C22: the channel never holds more Results than there are providers, no
\* provider has two Results published, and the Results in the channel and
\* the tasks that have not finished together never outnumber the
\* providers; so whenever a task stands at its send the channel is open
\* and not full and the send can be taken at once, whatever the consumer
\* has read.
C22_NeverFull ==
    /\ Len(results) <= Len(providers)
    /\ \A i \in 1..Len(published) : \A j \in 1..Len(published) :
           published[i].Provider = published[j].Provider => i = j
    /\ Len(results) + Cardinality({t \in Targets : pc[t] # "done"}) <= Len(providers)
    /\ \A t \in Targets :
           pc[t] = "send" =>
               /\ ~closed
               /\ Len(results) < Len(providers)
               /\ ENABLED Publish(t)

C22_Witness ==
    /\ Len(providers) = 2
    /\ received = <<>>
    /\ Len(results) = 1
    /\ \E t \in Targets : pc[t] = "send"
    /\ \E t \in Targets : pc[t] = "done"

\* The k-th attempt of target t was aborted by the cancellation.
Aborted(t, k) == k <= Len(log[t]) /\ log[t][k] = DoError(doCanceled)

\* C23: in Broadcast, an attempt aborted by the cancellation fails with the
\* "HTTP request failed" error, which shouldRetry retries like any network
\* failure. When it was the first or the second attempt, it is the last
\* one made: the task waits, its timer can no longer fire, and the run ends
\* with the error of the context, after as many sleeps as before. When it
\* was the third attempt, the run ends with the error "request to ...
\* failed after 3 attempts" that wraps the error of the aborted call.
C23_AbortedCallOutcome ==
    \A t \in Targets : \A k \in 1..Len(log[t]) :
        Aborted(t, k) =>
            /\ variant = "Broadcast" /\ cancelled
            /\ AttemptError(log[t][k]) = <<"HTTP", "request", "failed", ":">> \o doCanceled
            /\ shouldRetry(AttemptError(log[t][k]))
            /\ Len(log[t]) = k
            /\ IF k < maxRetries
               THEN /\ pc[t] \in {"backoff", "send", "done"}
                    /\ Len(sleeps[t]) = k - 1
                    /\ pc[t] = "backoff" =>
                           ~ENABLED TimerFires(t) /\ ENABLED WaitCancelled(t)
                    /\ Finished(t) => result[t].Error = ctxCanceled
               ELSE /\ Finished(t)
                    /\ result[t].Error # ctxCanceled
                    /\ result[t].Error =
                           FinalError(providers[t], maxRetries,
                                      <<"HTTP", "request", "failed", ":">> \o doCanceled)

C23_Witness ==
    /\ variant = "Broadcast"
    /\ Len(providers) = 2
    /\ Aborted(1, 1)
    /\ pc[1] = "done"
    /\ result[1].Error = ctxCanceled
    /\ Aborted(2, maxRetries)
    /\ pc[2] = "done"
    /\ result[2].Error # ctxCanceled

\* Reading a marshalled request: the position of the quote that closes the
\* value of "model", the value, and everything after it.
CloseQuote(b) == CHOOSE i \in 5..Len(b) : b[i] = "\"" /\ \A j \in 5..(i - 1) : b[j] # "\""
BodyModel(b) == SubSeq(b, 5, CloseQuote(b) - 1)
BodyRest(b) == SubSeq(b, CloseQuote(b) + 1, Len(b))

\* C21: no step changes the caller's request or the configured providers.
\* Once the dispatch has started, the body of every target carries the
\* model of that target and, after it, what the marshalled request of the
\* caller carries; the request variable of every task is the caller's
\* request with the model of its own target. The body of an ExecuteOne
\* call carries the model of the first target and the caller's content.
C21_RequestUnmodified ==
    [][/\ req'[0] = req[0]
       /\ providers' = providers
       /\ started' =>
              \A t \in Targets :
                  /\ BodyModel(requestBody'[t]) = ProviderModel(providers[t])
                  /\ BodyRest(requestBody'[t]) = BodyRest(Marshal(req[0]))
                  /\ req'[t] = [req[0] EXCEPT !.Model = ProviderModel(providers[t])]
       /\ (one'.pc # "idle" /\ Len(providers) > 0) =>
              /\ BodyModel(one'.requestBody) = ProviderModel(providers[1])
              /\ BodyRest(one'.requestBody) = BodyRest(Marshal(req[0]))]_vars

C21_Witness ==
    /\ started
    /\ Len(providers) = 2
    /\ req[0].Model = <<"caller", "model">>
    /\ BodyModel(requestBody[1]) = ProviderModel(providers[1])
    /\ BodyModel(requestBody[2]) = ProviderModel(providers[2])
    /\ requestBody[1] # requestBody[2]
    /\ Len(log[1]) = 2
    /\ pc[2] = "done"
    /\ one.pc = "done"

====
